---- MODULE Spec2Model ----
(***************************************************************************)
(* ObjectCache (src/lib/object-cache.ts): a read-through cache in front of *)
(* the adapter's object database, with a single-timer expiry scheduler.    *)
(*                                                                         *)
(* Time is an integer number of milliseconds.  The JavaScript run-to-      *)
(* completion semantics make every handler atomic; the only suspension     *)
(* point is the await in getObject, so a getObject that misses is two      *)
(* steps: GetObject (issue the query) and FetchReturn (the continuation).  *)
(***************************************************************************)
EXTENDS Integers, Sequences, FiniteSets

\* ------------------------------------------------------------------ bounds
\* Last instant the clock may reach (see Horizon).
MaxTime == 450
\* Largest number of backing-store queries in flight at once.
MaxPending == 2
\* Number of API calls the callers make in a run with three ids.
MaxCallsThree == 3

\* ------------------------------------------------------- program constants
\* The floor of the re-arm delay in setTimerForNextExpiry.
MinTimerDelay == 100
\* The expiry duration the cache is constructed with, when expiry is enabled:
\* longer than the re-arm floor and not a multiple of it, so that expire()
\* meets time deltas below, at and above the floor.
Duration == 150
\* expiryDuration === false: expiry disabled.
NoDuration == -1
\* An absent object (null / undefined).
NoObj == 0
\* expireTimer == null.
NoTimer == 0
\* A time stamp that is not set.
NoTime == 0 - 1
\* No limit on the number of API calls.
Unlimited == 0 - 1

\* The clock advances in steps of half the re-arm floor, so that gaps below,
\* at and above the floor all occur.
TickStep == MinTimerDelay \div 2

Ids == {"a", "b", "c"}
NoId == "none"
\* Payloads of the cached objects (the cache never inspects them).
Values == {1, 2}

\* Object identities, as far as aliasing goes: an object that callers or the
\* backing store hold, the object the Map holds, and an object just made.
CallersObject == "callers"
MapObject == "map"
FreshObject == "fresh"

VARIABLES
    expiryDuration,     \* constructor argument: Duration or NoDuration
    cache,              \* Map<string, Object>: id -> payload or NoObj
    expireTimestamps,   \* SortedList<ExpireTimestamp>: sequence of [timestamp, id]
    expireTimer,        \* handle of the timer the cache remembers, or NoTimer
    timers,             \* the runtime's pending timeouts: set of [handle, at]
    shared,             \* the ids whose object in the Map is one that a caller
                        \* holds too
    pending,            \* $getForeignObject queries in flight: id -> count
    now,                \* Date.now()
    knownIds,           \* environment: the ids the callers of this run use
    payloads,           \* environment: the payloads objects of this run carry
    callsLeft,          \* environment: API calls the callers still make, or Unlimited
    disposed,           \* history: dispose() has been called
    storedAt,           \* history: id -> time of the last store of the copy that
                        \* is cached or has expired
    lastEvent,          \* history: id -> what last happened to its entry
    obs                 \* history: what the last step did and returned

vars == <<expiryDuration, cache, expireTimestamps, expireTimer, timers, shared, pending,
          now, knownIds, payloads, callsLeft, disposed, storedAt, lastEvent, obs>>

\* --------------------------------------------------------------- SortedList
Max(x, y) == IF x >= y THEN x ELSE y

\* list with r as its i-th element
InsertAt(list, i, r) ==
    SubSeq(list, 1, i - 1) \o <<r>> \o SubSeq(list, i, Len(list))

RemoveAt(list, i) ==
    SubSeq(list, 1, i - 1) \o SubSeq(list, i + 1, Len(list))

\* SortedList.add: every list that has r inserted at a place that keeps the
\* list ordered by timestamp; the place among equal timestamps is not fixed.
SortedListAdd(list, r) ==
    { InsertAt(list, i, r) :
        i \in { j \in 1..(Len(list) + 1) :
                  /\ \A k \in 1..(j - 1) : list[k].timestamp <= r.timestamp
                  /\ \A k \in j..Len(list) : list[k].timestamp >= r.timestamp } }

\* [...list].find(ets => ets.id === id) followed by SortedList.remove
SortedListRemoveId(list, id) ==
    LET hits == { i \in 1..Len(list) : list[i].id = id }
    IN  IF hits = {} THEN list
        ELSE RemoveAt(list, CHOOSE i \in hits : \A j \in hits : i <= j)

\* ------------------------------------------------------------------ timers
NewHandle(ts) ==
    CHOOSE h \in 1..(Cardinality(ts) + 1) :
        /\ \A t \in ts : t.handle # h
        /\ \A g \in 1..(h - 1) : \E t \in ts : t.handle = g

\* setTimeout(cb, delay) at time t: the runtime's timers afterwards
SetTimeout(ts, delay, t) ==
    ts \cup { [handle |-> NewHandle(ts), at |-> t + delay] }

\* clearTimeout(handle)
ClearTimeout(ts, h) == { t \in ts : t.handle # h }

\* ------------------------------------------------------------- ObjectCache
\* The private state of one cache instance, as the methods below transform it.
Self == [cache |-> cache, expireTimestamps |-> expireTimestamps,
         expireTimer |-> expireTimer, timers |-> timers, shared |-> shared]

\* extend({}, obj): a new object that carries copies of obj's properties
Extend(obj) == FreshObject

\* faulty variant of rememberForExpiry: the record the id already has is kept
RememberForExpiryKeepOld(s, id, t) ==
    IF expiryDuration = NoDuration THEN {s}
    ELSE
      LET newTimestamp == [timestamp |-> t + expiryDuration, id |-> id]
      IN  { IF s.expireTimer = NoTimer
              THEN [s EXCEPT !.expireTimestamps = l,
                             !.expireTimer = NewHandle(s.timers),
                             !.timers = SetTimeout(s.timers, expiryDuration, t)]
              ELSE [s EXCEPT !.expireTimestamps = l]
            : l \in SortedListAdd(s.expireTimestamps, newTimestamp) }

\* faulty variant of rememberForExpiry: a timer is set whether or not one is
\* remembered already
RememberForExpiryAlwaysArm(s, id, t) ==
    IF expiryDuration = NoDuration THEN {s}
    ELSE
      LET removed == SortedListRemoveId(s.expireTimestamps, id)
          newTimestamp == [timestamp |-> t + expiryDuration, id |-> id]
      IN  { [s EXCEPT !.expireTimestamps = l,
                      !.expireTimer = NewHandle(s.timers),
                      !.timers = SetTimeout(s.timers, expiryDuration, t)]
            : l \in SortedListAdd(removed, newTimestamp) }

\* faulty variant of rememberForExpiry: the disabled expiry is not tested, and
\* the default duration is used
RememberForExpiryIgnoreDisabled(s, id, t) ==
    LET removed == SortedListRemoveId(s.expireTimestamps, id)
        newTimestamp == [timestamp |-> t + Duration, id |-> id]
    IN  { IF s.expireTimer = NoTimer
            THEN [s EXCEPT !.expireTimestamps = l,
                           !.expireTimer = NewHandle(s.timers),
                           !.timers = SetTimeout(s.timers, Duration, t)]
            ELSE [s EXCEPT !.expireTimestamps = l]
          : l \in SortedListAdd(removed, newTimestamp) }

\* rememberForExpiry(id) at time t: the set of possible states afterwards
RememberForExpiry(s, id, t) ==
    IF expiryDuration = NoDuration THEN {s}
    ELSE
      LET removed == SortedListRemoveId(s.expireTimestamps, id)
          newTimestamp == [timestamp |-> t + expiryDuration, id |-> id]
      IN  { IF s.expireTimer = NoTimer
              THEN [s EXCEPT !.expireTimestamps = l,
                             !.expireTimer = NewHandle(s.timers),
                             !.timers = SetTimeout(s.timers, expiryDuration, t)]
              ELSE [s EXCEPT !.expireTimestamps = l]
            : l \in SortedListAdd(removed, newTimestamp) }

\* faulty variant of storeObject: the Map is not written
StoreObjectNoCache(s, id, v, t) ==
    RememberForExpiry(s, id, t)

\* faulty variant of storeObject: the object passed in is put in the Map
StoreObjectNoClone(s, id, v, t) ==
    RememberForExpiry([s EXCEPT !.cache[id] = v, !.shared = @ \cup {id}], id, t)

\* storeObject(obj) with obj._id = id and payload v: the Map gets the clone
StoreObject(s, id, v, t) ==
    LET clone == Extend(CallersObject)
    IN  RememberForExpiry(
            [s EXCEPT !.cache[id] = v,
                      !.shared = IF clone = CallersObject
                                   THEN @ \cup {id} ELSE @ \ {id}],
            id, t)

\* retrieveObject(id): the value returned
RetrieveObject(s, id) == s.cache[id]

\* faulty variant of retrieveObject: the object in the Map is returned
RetrievedNoClone(s, id) ==
    IF s.cache[id] # NoObj THEN [s EXCEPT !.shared = @ \cup {id}] ELSE s

\* retrieveObject(id): the state after the caller got extend({}, cache.get(id))
Retrieved(s, id) ==
    IF s.cache[id] # NoObj /\ Extend(MapObject) = MapObject
      THEN [s EXCEPT !.shared = @ \cup {id}]
      ELSE s

\* faulty variant of invalidateObject: the Map is not written
InvalidateObjectInNoop(s, id) == s

\* faulty variant of invalidateObject: the id's Expiry Record is removed too
InvalidateObjectInForgets(s, id) ==
    [s EXCEPT !.cache[id] = NoObj, !.shared = @ \ {id},
              !.expireTimestamps = SortedListRemoveId(@, id)]

\* invalidateObject(id)
InvalidateObjectIn(s, id) ==
    [s EXCEPT !.cache[id] = NoObj, !.shared = @ \ {id}]

\* faulty variant of the test in expire(): every popped record counts as due
IsDueAlways(r, t) == TRUE

\* the test in expire(): timeDelta <= 0
IsDue(r, t) == r.timestamp - t <= 0

\* faulty variant of the delay: always the floor
NextDelayFloorOnly(r, t) == MinTimerDelay

\* faulty variant of the delay: the time left, without the floor
NextDelayNoFloor(r, t) == r.timestamp - t

\* the delay setTimerForNextExpiry passes to setTimeout
NextDelay(r, t) == Max(r.timestamp - t, MinTimerDelay)

\* faulty variant of setTimerForNextExpiry: no timer is set
SetTimerForNextExpiryNoop(s, t) == {s}

\* setTimerForNextExpiry() at time t
SetTimerForNextExpiry(s, t) ==
    IF Len(s.expireTimestamps) = 0 THEN {s}
    ELSE
      LET nextTimestamp == Head(s.expireTimestamps)
      IN  { [s EXCEPT !.expireTimestamps = l,
                      !.expireTimer = NewHandle(s.timers),
                      !.timers = SetTimeout(s.timers, NextDelay(nextTimestamp, t), t)]
            : l \in SortedListAdd(Tail(s.expireTimestamps), nextTimestamp) }

\* faulty variant of expire(): pop() where the code has shift()
ExpireTail(s, t) ==
    LET n == Len(s.expireTimestamps)
        nextTimestamp == s.expireTimestamps[n]
        popped == [s EXCEPT !.expireTimestamps = SubSeq(s.expireTimestamps, 1, n - 1)]
    IN  IF IsDue(nextTimestamp, t)
          THEN { InvalidateObjectIn(popped, nextTimestamp.id) }
          ELSE { [popped EXCEPT !.expireTimestamps = l]
                 : l \in SortedListAdd(popped.expireTimestamps, nextTimestamp) }

\* the part of expire() before setTimerForNextExpiry, on a non-empty list
ExpireHead(s, t) ==
    LET nextTimestamp == Head(s.expireTimestamps)
        shifted == [s EXCEPT !.expireTimestamps = Tail(s.expireTimestamps)]
    IN  IF IsDue(nextTimestamp, t)
          THEN { InvalidateObjectIn(shifted, nextTimestamp.id) }
          ELSE { [shifted EXCEPT !.expireTimestamps = l]
                 : l \in SortedListAdd(shifted.expireTimestamps, nextTimestamp) }

\* expire() at time t, run by the timer that has just fired
Expire(s, t) ==
    LET cleared == [s EXCEPT !.expireTimer = NoTimer]
    IN  IF Len(cleared.expireTimestamps) = 0 THEN {cleared}
        ELSE UNION { SetTimerForNextExpiry(s1, t) : s1 \in ExpireHead(cleared, t) }

\* dispose()
DisposeIn(s) ==
    LET stopped == IF s.expireTimer # NoTimer
                     THEN [s EXCEPT !.timers = ClearTimeout(s.timers, s.expireTimer),
                                    !.expireTimer = NoTimer]
                     ELSE s
    IN  [stopped EXCEPT !.cache = [i \in Ids |-> NoObj], !.shared = {}]

\* ---------------------------------------------------------------- actions
Become(s) ==
    /\ cache' = s.cache
    /\ expireTimestamps' = s.expireTimestamps
    /\ expireTimer' = s.expireTimer
    /\ timers' = s.timers
    /\ shared' = s.shared

\* op: "getObject" (a hit, returned ret), "query" (a miss, $getForeignObject
\* issued), "fetchReturn" ($getForeignObject answered arg, getObject returned
\* ret), "fetchFail" ($getForeignObject failed, getObject rejected),
\* "updateObject" (of payload arg), "invalidateObject", "dispose",
\* "mutate" (a caller wrote arg into its own object for id; the Map held ret),
\* "expire" (evicted id, or NoId), "tick".
Observe(op, id, arg, ret) ==
    obs' = [op |-> op, id |-> id, arg |-> arg, ret |-> ret]

\* lastEvent[id] is "none", "fetched" or "updated" (the cached copy was stored
\* by getObject's fetch or by updateObject), "invalidated", "absent" (a
\* getObject returned absent), "expired" or "disposed".
\* history of a store of id at the current time
NoteStore(id, how) ==
    /\ storedAt' = [storedAt EXCEPT ![id] = now]
    /\ lastEvent' = [lastEvent EXCEPT ![id] = how]

\* history of the ids in gone being evicted by expire()
NoteExpired(gone) ==
    /\ storedAt' = storedAt
    /\ lastEvent' = [i \in Ids |-> IF i \in gone THEN "expired" ELSE lastEvent[i]]

\* history of the ids in gone being removed by a caller
NoteGone(gone, how) ==
    /\ storedAt' = [i \in Ids |-> IF i \in gone THEN NoTime ELSE storedAt[i]]
    /\ lastEvent' = [i \in Ids |-> IF i \in gone THEN how ELSE lastEvent[i]]

\* the state right after construction, for callers that use the ids in known
\* and objects with the payloads in vals
Constructed(durations, known, vals, calls) ==
    /\ expiryDuration \in durations
    /\ cache = [i \in Ids |-> NoObj]
    /\ expireTimestamps = <<>>
    /\ expireTimer = NoTimer
    /\ timers = {}
    /\ shared = {}
    /\ pending = [i \in Ids |-> 0]
    /\ now = 0
    /\ knownIds = known
    /\ payloads = vals
    /\ callsLeft = calls
    /\ disposed = FALSE
    /\ storedAt = [i \in Ids |-> NoTime]
    /\ lastEvent = [i \in Ids |-> "none"]
    /\ obs = [op |-> "init", id |-> NoId, arg |-> NoObj, ret |-> NoObj]

Init == Constructed({Duration, NoDuration}, {"a", "b"}, Values, Unlimited)

InitThree == Constructed({Duration}, Ids, {1}, MaxCallsThree)

RECURSIVE SumOver(_, _)
SumOver(f, S) ==
    IF S = {} THEN 0
    ELSE LET x == CHOOSE y \in S : TRUE IN f[x] + SumOver(f, S \ {x})

PendingTotal == SumOver(pending, Ids)

\* a caller makes one more API call; a disposed cache is not used again
Call ==
    /\ ~disposed
    /\ callsLeft # 0
    /\ callsLeft' = IF callsLeft = Unlimited THEN Unlimited ELSE callsLeft - 1

\* getObject(id) up to its return (a hit) or its await (a miss)
GetObject(id) ==
    /\ Call
    /\ IF cache[id] # NoObj
         THEN /\ Observe("getObject", id, NoObj, RetrieveObject(Self, id))
              /\ Become(Retrieved(Self, id))
              /\ UNCHANGED pending
         ELSE /\ PendingTotal < MaxPending
              /\ pending' = [pending EXCEPT ![id] = @ + 1]
              /\ Observe("query", id, NoObj, NoObj)
              /\ Become(Self)
    /\ UNCHANGED <<expiryDuration, now, knownIds, payloads, disposed, storedAt,
                   lastEvent>>

\* faulty variant of getObject after its await: an absent answer is cached too
AfterFetchNegativeCache(s, id, ret, t) ==
    StoreObject(s, id, IF ret # NoObj THEN ret ELSE 1, t)

\* getObject after its await: if (ret != null) this.storeObject(ret)
AfterFetch(s, id, ret, t) ==
    IF ret # NoObj THEN StoreObject(s, id, ret, t) ELSE {s}

\* the continuation of getObject(id) once $getForeignObject has answered ret
FetchReturn(id, ret) ==
    /\ pending[id] > 0
    /\ pending' = [pending EXCEPT ![id] = @ - 1]
    /\ \E s \in AfterFetch(Self, id, ret, now) :
          /\ Become(Retrieved(s, id))
          /\ Observe("fetchReturn", id, ret, RetrieveObject(s, id))
    /\ IF ret # NoObj
         THEN NoteStore(id, "fetched")
         ELSE /\ lastEvent' = [lastEvent EXCEPT ![id] = IF cache[id] = NoObj THEN "absent" ELSE @]
              /\ UNCHANGED storedAt
    /\ UNCHANGED <<expiryDuration, now, knownIds, payloads, callsLeft, disposed>>

\* faulty variant of getObject after a failed await: the failure is swallowed
\* and a placeholder is stored
AfterFetchFailureStores(s, id, t) ==
    StoreObject(s, id, 1, t)

\* getObject after its await has thrown: neither storeObject nor
\* retrieveObject runs, the rejection leaves the method
AfterFetchFailure(s, id, t) == {s}

\* $getForeignObject fails: the await in getObject(id) throws and, as there is
\* no try/catch, getObject rejects with the same error
FetchFails(id) ==
    /\ pending[id] > 0
    /\ pending' = [pending EXCEPT ![id] = @ - 1]
    /\ \E s \in AfterFetchFailure(Self, id, now) : Become(s)
    /\ Observe("fetchFail", id, NoObj, NoObj)
    /\ UNCHANGED <<expiryDuration, now, knownIds, payloads, callsLeft, disposed,
                   storedAt, lastEvent>>

\* updateObject(obj)
UpdateObject(id, v) ==
    /\ Call
    /\ \E s \in StoreObject(Self, id, v, now) : Become(s)
    /\ NoteStore(id, "updated")
    /\ Observe("updateObject", id, v, NoObj)
    /\ UNCHANGED <<expiryDuration, pending, now, knownIds, payloads, disposed>>

\* invalidateObject(id), called from outside
InvalidateObject(id) ==
    /\ Call
    /\ Become(InvalidateObjectIn(Self, id))
    /\ NoteGone({id}, "invalidated")
    /\ Observe("invalidateObject", id, NoObj, NoObj)
    /\ UNCHANGED <<expiryDuration, pending, now, knownIds, payloads, disposed>>

\* dispose()
Dispose ==
    /\ Call
    /\ Become(DisposeIn(Self))
    /\ disposed' = TRUE
    /\ NoteGone(Ids, "disposed")
    /\ Observe("dispose", NoId, NoObj, NoObj)
    /\ UNCHANGED <<expiryDuration, pending, now, knownIds, payloads>>

\* a pending timeout that is due fires and runs expire()
TimerFires ==
    \E tm \in timers :
        /\ tm.at <= now
        /\ \E s \in Expire([Self EXCEPT !.timers = timers \ {tm}], now) :
              /\ Become(s)
              /\ LET gone == { i \in Ids : cache[i] # NoObj /\ s.cache[i] = NoObj }
                 IN  /\ NoteExpired(gone)
                     /\ Observe("expire",
                                IF gone = {} THEN NoId ELSE CHOOSE i \in gone : TRUE,
                                NoObj, NoObj)
        /\ UNCHANGED <<expiryDuration, pending, now, knownIds, payloads, callsLeft,
                       disposed>>

\* a caller writes payload v into an object it holds for id: a property of
\* the object in the Map changes if that is the same object
MutateIn(s, id, v) ==
    IF id \in s.shared THEN [s EXCEPT !.cache[id] = v] ELSE s

\* the caller of the last step mutates the object it passed to updateObject
\* or got from getObject; ret is what the Map held for the id before
Mutate(id, v) ==
    /\ obs.op \in {"getObject", "fetchReturn", "updateObject"}
    /\ obs.id = id
    /\ cache[id] # NoObj
    /\ v # cache[id]
    /\ Become(MutateIn(Self, id, v))
    /\ Observe("mutate", id, v, cache[id])
    /\ UNCHANGED <<expiryDuration, pending, now, knownIds, payloads, callsLeft,
                   disposed, storedAt, lastEvent>>

\* the last instant the clock reaches in a run: MaxTime when the callers use
\* every id, one re-arm floor less for every id they leave out (an entry is
\* evicted later by up to one floor for every record ahead of its own)
Horizon == MaxTime - MinTimerDelay * (Cardinality(Ids) - Cardinality(knownIds))

\* time passes; a timeout that is due fires before the clock moves on
Tick ==
    /\ now + TickStep <= Horizon
    /\ \A tm \in timers : tm.at > now
    /\ now' = now + TickStep
    /\ Observe("tick", NoId, NoObj, NoObj)
    /\ UNCHANGED <<expiryDuration, cache, expireTimestamps, expireTimer, timers,
                   shared, pending, knownIds, payloads, callsLeft, disposed,
                   storedAt, lastEvent>>

Next ==
    \/ \E id \in knownIds : GetObject(id)
    \/ \E id \in knownIds, ret \in payloads \cup {NoObj} : FetchReturn(id, ret)
    \/ \E id \in knownIds : FetchFails(id)
    \/ \E id \in knownIds, v \in payloads : UpdateObject(id, v)
    \/ \E id \in knownIds : InvalidateObject(id)
    \/ Dispose
    \/ \E id \in knownIds, v \in Values : Mutate(id, v)
    \/ TimerFires
    \/ Tick

\* two callers' ids, two payloads, expiry enabled or disabled
Spec == Init /\ [][Next]_vars

\* three ids with expiry enabled, for the claims about several entries
SpecThree == InitThree /\ [][Next]_vars

\* ------------------------------------------------------------------ claims
Enabled == expiryDuration # NoDuration

\* the step was a getObject call: a hit that returned, or a miss that queried
IsGet(o) == o.op \in {"getObject", "query"}

\* the positions of the Expiry Records of id
RecordsOf(list, id) == { i \in 1..Len(list) : list[i].id = id }

RecordSet(list) == { list[i] : i \in 1..Len(list) }

\* C1: with expiry enabled, a getObject(a) issued later than t + D, where t is
\* the time of the last store of a and a was not invalidated or disposed
\* since, does not find a in the Entry Store: no getObject hits a copy that
\* is older than D.
C1_NoHitAfterDeadline ==
    (Enabled /\ obs.op = "getObject") =>
        now <= storedAt[obs.id] + expiryDuration

\* C2: expire() evicts an id only when the record it popped is that id's and
\* is due (timestamp <= now, which is never before the last store plus D); a
\* popped record that is not due is re-inserted and the Entry Store is left
\* as it was; a getObject issued less than D after the last store of its id,
\* with no invalidate or dispose in between, is a hit and issues no query.
C2_NoEvictionBeforeDeadline ==
    [][ /\ obs'.op = "expire" =>
            /\ \A a \in Ids :
                  (cache[a] # NoObj /\ cache'[a] = NoObj) =>
                      /\ Len(expireTimestamps) > 0
                      /\ Head(expireTimestamps).id = a
                      /\ Head(expireTimestamps).timestamp <= now
                      /\ now >= storedAt[a] + expiryDuration
            /\ (Len(expireTimestamps) > 0 /\ Head(expireTimestamps).timestamp > now) =>
                      /\ cache' = cache
                      /\ RecordSet(expireTimestamps') = RecordSet(expireTimestamps)
                      /\ Len(expireTimestamps') = Len(expireTimestamps)
        /\ (Enabled /\ IsGet(obs') /\ storedAt[obs'.id] # NoTime
              /\ now < storedAt[obs'.id] + expiryDuration) =>
            /\ obs'.op = "getObject"
            /\ obs'.ret = cache[obs'.id]
            /\ pending' = pending
      ]_vars

\* expire() has just popped a record that is not due and put it back; its
\* entry is still cached.
C2_Witness ==
    /\ obs.op = "expire"
    /\ obs.id = NoId
    /\ Len(expireTimestamps) > 0
    /\ Head(expireTimestamps).timestamp > now
    /\ cache[Head(expireTimestamps).id] # NoObj

\* C3: updateObject resets the expiry clock: after updateObject(a) at time u
\* the Expiry Index holds exactly one record for a, with timestamp u + D, and
\* the Entry Store holds the new object; a timer fire at or after the old
\* deadline leaves a cached, and expire() evicts a only at or after u + D.
C3_UpdateResetsClock ==
    [][ /\ (Enabled /\ obs'.op = "updateObject") =>
            /\ cache'[obs'.id] = obs'.arg
            /\ Cardinality(RecordsOf(expireTimestamps', obs'.id)) = 1
            /\ \A i \in RecordsOf(expireTimestamps', obs'.id) :
                  expireTimestamps'[i].timestamp = now + expiryDuration
        /\ \A a \in Ids :
              (obs'.op = "expire" /\ lastEvent[a] = "updated"
                 /\ now < storedAt[a] + expiryDuration) =>
                  /\ cache'[a] = cache[a]
                  /\ cache'[a] # NoObj
      ]_vars

\* The timer armed by an earlier store has fired at or after the entry's old
\* deadline without evicting it, because an updateObject moved the deadline.
C3_Witness ==
    /\ obs.op = "expire"
    /\ obs.id = NoId
    /\ ~disposed
    /\ Len(expireTimestamps) = 1
    /\ LET a == Head(expireTimestamps).id
       IN  /\ lastEvent[a] = "updated"
           /\ cache[a] # NoObj
           /\ storedAt[a] > 0
           /\ storedAt[a] < now
           /\ now < storedAt[a] + expiryDuration

\* C4: a getObject(a) that misses issues exactly one backing-store query; when
\* the query answers an object, getObject stores it and returns its value; a
\* getObject(a) that follows, before a is updated, invalidated, expired or
\* disposed, returns the same value and issues no query.
C4_ReadThrough ==
    [][ /\ obs'.op = "query" =>
            /\ cache[obs'.id] = NoObj
            /\ pending' = [pending EXCEPT ![obs'.id] = @ + 1]
        /\ (obs'.op = "fetchReturn" /\ obs'.arg # NoObj) =>
            /\ obs'.ret = obs'.arg
            /\ cache'[obs'.id] = obs'.arg
            /\ pending' = [pending EXCEPT ![obs'.id] = @ - 1]
        /\ (IsGet(obs') /\ lastEvent[obs'.id] = "fetched") =>
            /\ obs'.op = "getObject"
            /\ obs'.ret = cache[obs'.id]
            /\ pending' = pending
        /\ (IsGet(obs') /\ obs.op = "fetchReturn" /\ obs.arg # NoObj
              /\ obs'.id = obs.id) =>
            /\ obs'.op = "getObject"
            /\ obs'.ret = obs.ret
      ]_vars

\* A getObject has been served from the copy an earlier getObject fetched.
C4_Witness ==
    /\ obs.op = "getObject"
    /\ lastEvent[obs.id] = "fetched"
    /\ obs.ret = cache[obs.id]
    /\ obs.ret # NoObj
    /\ pending[obs.id] = 0

\* C5 as claimed: when the backing store answers absent, getObject returns
\* absent, adds nothing to the Entry Store or the Expiry Index and arms no
\* timer, in every interleaving.
C5_AbsentReturnsAbsent ==
    [][ (obs'.op = "fetchReturn" /\ obs'.arg = NoObj) =>
            /\ obs'.ret = NoObj
            /\ UNCHANGED <<cache, expireTimestamps, expireTimer, timers>>
      ]_vars

\* C5 as amended: when the backing store answers absent, getObject adds
\* nothing to the Entry Store or the Expiry Index and arms no timer, in every
\* interleaving, and returns what the Entry Store holds for the id: absent,
\* unless the id was stored while the call was suspended.
C5_AbsentCachesNothing ==
    [][ (obs'.op = "fetchReturn" /\ obs'.arg = NoObj) =>
            /\ obs'.ret = cache[obs'.id]
            /\ UNCHANGED <<cache, expireTimestamps, expireTimer, timers>>
      ]_vars

\* The backing store answered absent to a getObject during whose suspension
\* the id was stored: the call returns the cached copy.
C5_Witness ==
    /\ obs.op = "fetchReturn"
    /\ obs.arg = NoObj
    /\ obs.ret # NoObj
    /\ cache[obs.id] = obs.ret

\* C6: no negative caching: once a getObject(x) has returned absent, every
\* getObject(x) that follows (x not being stored by updateObject in between)
\* issues its own backing-store query: one more query per call.
C6_NoNegativeCaching ==
    [][ (IsGet(obs') /\ lastEvent[obs'.id] = "absent") =>
            /\ obs'.op = "query"
            /\ pending' = [pending EXCEPT ![obs'.id] = @ + 1]
      ]_vars

\* A getObject(x) has queried the backing store after an earlier getObject(x)
\* returned absent.
C6_Witness ==
    /\ obs.op = "query"
    /\ lastEvent[obs.id] = "absent"
    /\ cache[obs.id] = NoObj

\* C7: invalidate is immediate: after invalidateObject(a), with no store of a
\* in between, a getObject(a) misses the Entry Store and issues a query, also
\* when a's expiry timestamp has not been reached.
C7_InvalidateIsImmediate ==
    [][ /\ obs'.op = "invalidateObject" => cache'[obs'.id] = NoObj
        /\ (IsGet(obs') /\ lastEvent[obs'.id] = "invalidated") =>
            /\ obs'.op = "query"
            /\ pending' = [pending EXCEPT ![obs'.id] = @ + 1]
      ]_vars

\* A getObject(a) has queried the backing store after invalidateObject(a),
\* while a's Expiry Record is still in the index and not due.
C7_Witness ==
    /\ obs.op = "query"
    /\ lastEvent[obs.id] = "invalidated"
    /\ \E i \in RecordsOf(expireTimestamps, obs.id) :
          expireTimestamps[i].timestamp > now

\* C8: once dispose() has been called no timer is armed and no expire() step
\* runs, also when a getObject that was suspended at the dispose completes.
C8_DisposeStopsTimers ==
    disposed =>
        /\ timers = {}
        /\ expireTimer = NoTimer
        /\ obs.op # "expire"

\* how late, after its deadline, expire() may evict an entry: one re-arm
\* floor for every id the callers use
Tolerance == MinTimerDelay * Cardinality(knownIds)

C10_TimerIffIndexNonEmpty ==
    (expireTimer # NoTimer) <=> (Len(expireTimestamps) > 0)

\* C10 as amended: as long as dispose() has not been called, a timer is armed
\* if and only if the Expiry Index is non-empty.
C10_TimerIffIndexNonEmptyUntilDispose ==
    ~disposed => ((expireTimer # NoTimer) <=> (Len(expireTimestamps) > 0))

\* expire() has evicted an entry and re-armed the timer for the records left.
C10_Witness ==
    /\ ~disposed
    /\ obs.op = "expire"
    /\ obs.id # NoId
    /\ Len(expireTimestamps) > 0
    /\ expireTimer # NoTimer
    /\ \E tm \in timers : tm.handle = expireTimer

\* C11: at most one timer is outstanding at any time: no sequence of stores,
\* timer fires, invalidations and disposes arms a second timer while an
\* earlier one is pending; every pending timer is the one expireTimer
\* records, and expireTimer records a timer only while that timer is pending
\* (so that dispose() cancels every pending timer).
C11_SingleTimer ==
    /\ Cardinality(timers) <= 1
    /\ \A tm \in timers : tm.handle = expireTimer
    /\ expireTimer # NoTimer => \E tm \in timers : tm.handle = expireTimer
    /\ obs.op = "dispose" => timers = {}

\* A store has found a timer pending and armed no second one: two records
\* wait in the index behind the one timer, armed by the earlier store.
C11_Witness ==
    /\ obs.op \in {"updateObject", "fetchReturn"}
    /\ Len(expireTimestamps) = 2
    /\ Cardinality(timers) = 1
    /\ \E tm \in timers :
          /\ tm.handle = expireTimer
          /\ tm.at < now + expiryDuration
          /\ tm.at > now

\* C12: when the backing-store query inside getObject(id) fails, getObject
\* rejects with that failure and issues no retry query (the query in flight
\* is gone and none is added); neither the call nor its failure changes the
\* Entry Store, the Expiry Index or the timer.
C12_FetchFailureChangesNothing ==
    [][ /\ obs'.op = "fetchFail" =>
            /\ pending[obs'.id] > 0
            /\ pending' = [pending EXCEPT ![obs'.id] = @ - 1]
            /\ UNCHANGED <<cache, expireTimestamps, expireTimer, timers>>
        /\ obs'.op = "query" =>
            UNCHANGED <<cache, expireTimestamps, expireTimer, timers>>
      ]_vars

\* The query of a getObject has failed while the cache holds another entry,
\* its record and its timer; the id asked for is neither cached nor queried
\* any more.
C12_Witness ==
    /\ obs.op = "fetchFail"
    /\ pending[obs.id] = 0
    /\ cache[obs.id] = NoObj
    /\ Len(expireTimestamps) > 0
    /\ expireTimer # NoTimer
    /\ \E i \in Ids : cache[i] # NoObj

\* the timer pending in the state with timers ts is set for a time before the
\* smallest timestamp of list
FiresBeforeEarliest(ts, list) ==
    /\ Len(list) > 0
    /\ \E tm \in ts : tm.at < Head(list).timestamp

\* C13 as claimed: in every reachable state where a timer is armed, its fire
\* time is not earlier than the smallest timestamp in the Expiry Index.
C13_TimerNotBeforeEarliest ==
    ~FiresBeforeEarliest(timers, expireTimestamps)

\* C13 as amended: a timer is never armed for a time before the smallest
\* timestamp the Expiry Index holds at that moment; a pending timer comes to
\* lie before the smallest timestamp only when the entry with the earliest
\* deadline is stored again; when such a timer fires, expire() evicts
\* nothing and arms the next timer not before the smallest timestamp.
C13_TimerArmedNotBeforeEarliest ==
    [][ /\ \A tm \in timers' \ timers :
              /\ Len(expireTimestamps') > 0
              /\ tm.at >= Head(expireTimestamps').timestamp
        /\ (~FiresBeforeEarliest(timers, expireTimestamps)
              /\ FiresBeforeEarliest(timers', expireTimestamps')) =>
              /\ obs'.op \in {"updateObject", "fetchReturn"}
              /\ timers' = timers
              /\ obs'.id = Head(expireTimestamps).id
        /\ (obs'.op = "expire"
              /\ FiresBeforeEarliest(timers, expireTimestamps)) =>
              /\ cache' = cache
              /\ ~FiresBeforeEarliest(timers', expireTimestamps')
      ]_vars

\* The timer armed by the first store has fired before the deadline that a
\* later updateObject gave the only entry; nothing was evicted and the timer
\* is armed again, for a time after that deadline.
C13_Witness ==
    /\ obs.op = "expire"
    /\ obs.id = NoId
    /\ Len(expireTimestamps) = 1
    /\ lastEvent[Head(expireTimestamps).id] = "updated"
    /\ cache[Head(expireTimestamps).id] # NoObj
    /\ Head(expireTimestamps).timestamp > now
    /\ \E tm \in timers : tm.at > Head(expireTimestamps).timestamp

\* C14: after updateObject(obj) the Entry Store holds obj's value for obj.id,
\* and every getObject(obj.id) that hits returns it, until the next
\* updateObject, invalidateObject, expiry or dispose of that id: no other
\* step, the completion of a getObject that was suspended when updateObject
\* ran included, changes the value cached for the id.
C14_UpdateWinsOverSuspendedGet ==
    [][ \A a \in Ids :
          ( /\ lastEvent[a] = "updated"
            /\ ~(obs'.op \in {"updateObject", "invalidateObject"} /\ obs'.id = a)
            /\ obs'.op # "dispose"
            /\ ~(obs'.op = "expire" /\ cache'[a] = NoObj) ) =>
              /\ cache'[a] = cache[a]
              /\ (obs'.op = "getObject" /\ obs'.id = a) => obs'.ret = cache[a]
      ]_vars

\* C15: copy isolation: the object the Entry Store holds for an id is never
\* one that a caller or the backing store holds (neither the object passed
\* to updateObject, nor the fetched one, nor one returned by getObject), so
\* after a caller has mutated its object the Entry Store holds, and a later
\* getObject returns, what it held before.
C15_CopyIsolation ==
    /\ shared = {}
    /\ obs.op = "mutate" => cache[obs.id] = obs.ret

\* A caller has mutated the object it got from getObject (a hit) into a value
\* unlike the cached one; the Entry Store still holds the old value.
C15_Witness ==
    /\ obs.op = "mutate"
    /\ lastEvent[obs.id] = "fetched"
    /\ cache[obs.id] # NoObj
    /\ obs.arg # cache[obs.id]

\* C16: in every reachable state (each rememberForExpiry call having
\* completed) the Expiry Index holds at most one Expiry Record per
\* identifier, whatever the interleaving of stores, fetches, invalidations
\* and timer fires; the record of an identifier whose entry was stored and
\* neither invalidated nor evicted since carries the time of its most recent
\* store plus the expiry duration.
C16_OneRecordPerId ==
    \A id \in Ids :
        /\ Cardinality(RecordsOf(expireTimestamps, id)) <= 1
        /\ (Enabled /\ lastEvent[id] \in {"fetched", "updated"}) =>
              \E i \in RecordsOf(expireTimestamps, id) :
                  expireTimestamps[i].timestamp = storedAt[id] + expiryDuration

\* A getObject has stored what it fetched, at a time when the index already
\* held a record of its id (from an earlier fetch or store, whose timer is
\* still pending): the index holds the new record only.
C16_Witness ==
    /\ obs.op = "fetchReturn"
    /\ obs.arg # NoObj
    /\ ~disposed
    /\ Len(expireTimestamps) = 1
    /\ Head(expireTimestamps) = [timestamp |-> now + expiryDuration, id |-> obs.id]
    /\ \E tm \in timers : tm.at < now + expiryDuration

\* C17: after every expire() step: if the Expiry Index is non-empty, exactly
\* one timer is armed, with delay max(earliestTimestamp - now, 100), and if
\* it is empty no timer is armed; the step removes the earliest record if
\* that is due and no other record (the peek in setTimerForNextExpiry
\* leaves the set of records as it is), and it evicts at most one identifier.
C17_ExpireRearms ==
    [][ (obs'.op = "expire" /\ Len(expireTimestamps) > 0) =>
          LET left == IF Head(expireTimestamps).timestamp <= now
                        THEN Tail(expireTimestamps) ELSE expireTimestamps
          IN  /\ RecordSet(expireTimestamps') = RecordSet(left)
              /\ Len(expireTimestamps') = Len(left)
              /\ Len(expireTimestamps') >= Len(expireTimestamps) - 1
              /\ Cardinality({ a \in Ids : cache[a] # NoObj /\ cache'[a] = NoObj }) <= 1
              /\ IF Len(expireTimestamps') > 0
                   THEN /\ expireTimer' # NoTimer
                        /\ timers' =
                             { [handle |-> expireTimer',
                                at |-> now + Max(Head(expireTimestamps').timestamp - now,
                                                 MinTimerDelay)] }
                   ELSE /\ expireTimer' = NoTimer
                        /\ timers' = {}
      ]_vars

\* expire() has evicted an entry and found the next record due in less than
\* the floor: the timer is armed for the floor.
C17_Witness ==
    /\ obs.op = "expire"
    /\ obs.id # NoId
    /\ Len(expireTimestamps) > 0
    /\ Head(expireTimestamps).timestamp > now
    /\ Head(expireTimestamps).timestamp < now + MinTimerDelay
    /\ timers = {[handle |-> expireTimer, at |-> now + MinTimerDelay]}

\* C18: invalidateObject(id) changes only the Entry Store: the Expiry Index
\* and the timer stay as they are, and for an id that is not cached nothing
\* changes at all; the Expiry Record it leaves behind never evicts a copy of
\* the id that is stored later before that copy's own deadline: popping a
\* record whose id is absent changes nothing in the Entry Store, and the
\* next store of the id replaces the record.
C18_InvalidateLeavesIndexAndTimer ==
    [][ /\ obs'.op = "invalidateObject" =>
            /\ UNCHANGED <<expireTimestamps, expireTimer, timers, pending>>
            /\ cache' = [cache EXCEPT ![obs'.id] = NoObj]
            /\ cache[obs'.id] = NoObj => cache' = cache
        /\ (obs'.op = "expire" /\ Len(expireTimestamps) > 0
              /\ cache[Head(expireTimestamps).id] = NoObj) =>
            cache' = cache
        /\ \A a \in Ids :
              (obs'.op = "expire" /\ cache[a] # NoObj /\ cache'[a] = NoObj) =>
                  now >= storedAt[a] + expiryDuration
        /\ (Enabled /\ obs'.op \in {"updateObject", "fetchReturn"}
              /\ (obs'.op = "fetchReturn" => obs'.arg # NoObj)) =>
            \A i \in RecordsOf(expireTimestamps', obs'.id) :
                expireTimestamps'[i].timestamp = now + expiryDuration
      ]_vars

\* expire() has popped the record that an invalidateObject left behind: the
\* id was absent, nothing was evicted, and the index is empty.
C18_Witness ==
    /\ ~disposed
    /\ obs.op = "expire"
    /\ obs.id = NoId
    /\ Len(expireTimestamps) = 0
    /\ timers = {}
    /\ \E a \in Ids : lastEvent[a] = "invalidated"

\* C19: when the cache is constructed with expiry disabled, in every
\* reachable state the Expiry Index is empty and no timer is armed, no
\* expire() step runs, and an entry that was stored and neither invalidated
\* nor disposed since is in the Entry Store.
C19_DisabledNeverExpires ==
    ~Enabled =>
        /\ expireTimestamps = <<>>
        /\ expireTimer = NoTimer
        /\ timers = {}
        /\ obs.op # "expire"
        /\ \A id \in Ids :
              /\ lastEvent[id] # "expired"
              /\ lastEvent[id] \in {"fetched", "updated"} => cache[id] # NoObj

\* With expiry disabled, a getObject is served from the Entry Store two
\* expiry durations after the entry was stored.
C19_Witness ==
    /\ ~Enabled
    /\ obs.op = "getObject"
    /\ obs.ret # NoObj
    /\ storedAt[obs.id] # NoTime
    /\ now >= storedAt[obs.id] + 2 * Duration

\* C20: with expiry enabled, in every reachable state every identifier in
\* the Entry Store has an Expiry Record in the Expiry Index and a timer is
\* armed and pending, so that no entry stays cached forever: as timers fire
\* when they are due, an entry that is not stored again is evicted less than
\* Tolerance after its deadline.
C20_CachedEntriesAreScheduled ==
    Enabled =>
        \A id \in Ids :
            cache[id] # NoObj =>
                /\ RecordsOf(expireTimestamps, id) # {}
                /\ expireTimer # NoTimer
                /\ \E tm \in timers : tm.handle = expireTimer
                /\ now < storedAt[id] + expiryDuration + Tolerance

\* An entry is cached past its deadline, behind another entry's record; its
\* own record is in the index and the timer that will evict it is pending.
C20_Witness ==
    /\ Enabled
    /\ ~disposed
    /\ \E id \in Ids :
          /\ cache[id] # NoObj
          /\ now > storedAt[id] + expiryDuration
          /\ RecordsOf(expireTimestamps, id) # {}
          /\ \E tm \in timers : tm.handle = expireTimer /\ tm.at > now

====
